---- MODULE Spec2Model ----
\* A model of the Dynamite composition layer of src/dynamite_cpp/Main.cpp:
\* ParameterBlock, ModelT and the layers, Sequential, Batch::Map, FromCNTKMB,
\* Recurrence, Sequence::Fold, CreateModelFunctionUnrolled,
\* CreateModelFunctionS2SAtt, TrainSequenceClassifier and main.
\*
\* Tensors (CNTK::Variable) are opaque to this layer, so a Variable is a term:
\* a tuple whose head is the name of the operation that built it and whose
\* tail holds the argument terms.  Two terms are equal exactly when the same
\* operations were applied to the same arguments in the same order, which is
\* the strongest reading of "element i equals f(A[i], B[i])".
\* C++ vectors are sequences; At(v, i) is v[i] with the source's 0-based index.
EXTENDS Naturals, Integers, Sequences, FiniteSets, TLC

VARIABLES
    pc,            \* position of the running call
    calls,         \* the sub-model invocations made so far, in order
    err,           \* the fatal error raised, "" when none
    seq,           \* Recurrence: the input sequence
    initialState,  \* Recurrence: the captured initial state
    goBackwards,   \* Recurrence: the captured direction
    res,           \* the result vector under construction (Recurrence, Batch::Map, FromCNTKMB)
    t,             \* loop index of Recurrence / CreateModelFunctionUnrolled
    x,             \* CreateModelFunctionUnrolled: the input tensor, one column per time step
    state,         \* CreateModelFunctionUnrolled: the threaded state
    out,           \* the value returned by the model call
    foldOut,       \* the value Sequence::Fold returns on the same input
    xBatch,        \* Batch::Map: first batch
    yBatch,        \* Batch::Map: second batch
    ndebug,        \* whether the build defines NDEBUG (assert compiled out)
    variant,       \* Batch::Map overload: "BinaryModel" or "BinarySequenceModel"
    ncall,         \* number of calls of the mapper made so far
    oobRead,       \* whether a call has read yBatch past its end
    inputs,        \* FromCNTKMB: per stream, the sequences it unpacks to
    hasAxisOf,     \* FromCNTKMB: per stream, whether the variable has a sequence axis
    numSeq,        \* FromCNTKMB: the local numSeq
    i,             \* FromCNTKMB: the stream index
    blocks,        \* the ParameterBlocks constructed so far
    supplied,      \* per block, the parameter list its constructor was given
    ret,           \* what the last ParameterBlock operation returned
    nextUid,       \* identity of the next Parameter object created
    fns,           \* Sequential: the models it is given
    model,         \* the model under inspection (a ModelT)
    nullDeref,     \* whether an empty shared_ptr<ParameterBlock> has been dereferenced
    input,         \* CreateModelFunctionS2SAtt: the input sequence
    label,         \* CreateModelFunctionS2SAtt: the label sequence
    encoded,       \* CreateModelFunctionS2SAtt: the encoder states
    losses,        \* CreateModelFunctionS2SAtt: the losses vector
    d_model_fn,    \* TrainSequenceClassifier: the dynamic model
    model_fn,      \* TrainSequenceClassifier: the static model
    source,        \* the minibatches the reader has yet to deliver
    minibatchData, \* TrainSequenceClassifier: the minibatch of this iteration
    args,          \* TrainSequenceClassifier: what FromCNTKMB returned
    repeats,       \* TrainSequenceClassifier: the iteration counter
    xxx,           \* TrainSequenceClassifier: counter of the timed loop
    stmt,          \* how many statements of the current unrolled run have executed
    pvalue,        \* the value of every Parameter, by identity
    mbLoss,        \* TrainSequenceClassifier: the last dynamic criterion value
    lastEval,      \* the parameter values the last d_criterion_fn call ran with
    reported       \* what main's handler has printed to stderr

vars == <<pc, calls, err, seq, initialState, goBackwards, res, t, x, state, out,
          foldOut, xBatch, yBatch, ndebug, variant, ncall, oobRead, inputs,
          hasAxisOf,
          numSeq, i, blocks, supplied, ret, nextUid, fns, model, nullDeref,
          input, label, encoded, losses, d_model_fn, model_fn, source,
          minibatchData, args, repeats, xxx, stmt, pvalue, mbLoss, lastEval,
          reported>>

recVars   == <<seq, initialState, goBackwards>>
unrVars   == <<x, state, out, foldOut>>
batchVars == <<xBatch, yBatch, ndebug, variant, ncall, oobRead>>
mbVars    == <<inputs, hasAxisOf, numSeq, i>>
pbVars    == <<blocks, supplied, ret, nextUid>>
mdlVars   == <<fns, model, nullDeref>>
s2sVars   == <<input, label, encoded, losses>>
drvVars   == <<d_model_fn, model_fn, source, minibatchData, args, repeats,
               xxx, stmt, pvalue, mbLoss, lastEval, reported>>
extVars   == <<mdlVars, s2sVars, drvVars>>

\* ---------------------------------------------------------------- bounds
MaxLen == 3      \* longest sequence / batch
MaxStreams == 3  \* most input streams of one minibatch
MaxSeqs == 2     \* most sequences one stream unpacks to
MaxParams == 2   \* longest parameter list given to a constructor
MaxBlocks == 2   \* most ParameterBlocks built in one run
MaxCalls == 2    \* most calls of one mapper

\* ---------------------------------------------------------------- values
At(v, k) == v[k + 1]

Seqs(S, n) == UNION {[1..m -> S] : m \in 0..n}

\* A default-constructed Variable, as vector<Variable>(len) holds.
NullVariable == <<"null">>

Leaf(name) == <<name>>
Tokens == {Leaf("a"), Leaf("b"), Leaf("c")}

\* The application of a model to its arguments, as a term.
Apply1(f, a) == <<f, a>>
Apply2(f, a, b) == <<f, a, b>>

Call1(f, a) == [fn |-> f, args |-> <<a>>]
Call2(f, a, b) == [fn |-> f, args |-> <<a, b>>]

\* ---------------------------------------------------------------- Recurrence
\* One iteration of the loop of the lambda Recurrence returns; st holds the
\* locals res and t and the log of step invocations.
RecurrenceBodyPrevAlwaysInitial(step, init, back, s, st) ==
    LET len == Len(s)
        tt == st.t
    IN  IF ~back
        THEN [res |-> [st.res EXCEPT ![tt + 1] = Apply2(step, init, At(s, tt))],
              calls |-> Append(st.calls, Call2(step, init, At(s, tt))),
              t |-> tt + 1]
        ELSE [res |-> [st.res EXCEPT ![len - 1 - tt + 1] = Apply2(step, init, At(s, len - 1 - tt))],
              calls |-> Append(st.calls, Call2(step, init, At(s, len - 1 - tt))),
              t |-> tt + 1]

RecurrenceBodyBackwardUnmirrored(step, init, back, s, st) ==
    LET len == Len(s)
        tt == st.t
        prev == IF tt = 0 THEN init ELSE At(st.res, tt - 1)
    IN  IF ~back
        THEN [res |-> [st.res EXCEPT ![tt + 1] = Apply2(step, prev, At(s, tt))],
              calls |-> Append(st.calls, Call2(step, prev, At(s, tt))),
              t |-> tt + 1]
        ELSE [res |-> [st.res EXCEPT ![len - 1 - tt + 1] = Apply2(step, prev, At(s, len - 1 - tt))],
              calls |-> Append(st.calls, Call2(step, prev, At(s, len - 1 - tt))),
              t |-> tt + 1]

RecurrenceBody(step, init, back, s, st) ==
    LET len == Len(s)
        tt == st.t
    IN  IF ~back
        THEN LET prev == IF tt = 0 THEN init ELSE At(st.res, tt - 1)
             IN  [res |-> [st.res EXCEPT ![tt + 1] = Apply2(step, prev, At(s, tt))],
                  calls |-> Append(st.calls, Call2(step, prev, At(s, tt))),
                  t |-> tt + 1]
        ELSE LET prev == IF tt = 0 THEN init ELSE At(st.res, len - 1 - (tt - 1))
             IN  [res |-> [st.res EXCEPT ![len - 1 - tt + 1] = Apply2(step, prev, At(s, len - 1 - tt))],
                  calls |-> Append(st.calls, Call2(step, prev, At(s, len - 1 - tt))),
                  t |-> tt + 1]

\* The locals on entry: vector<Variable> res(len), t = 0.
RecurrenceEntry(s, log) ==
    [res |-> [k \in 1..Len(s) |-> NullVariable], calls |-> log, t |-> 0]

RECURSIVE RecurrenceLoop(_, _, _, _, _)
RecurrenceLoop(step, init, back, s, st) ==
    IF st.t < Len(s)
    THEN RecurrenceLoop(step, init, back, s, RecurrenceBody(step, init, back, s, st))
    ELSE st

\* The whole call Recurrence(step, init, back)(s): the vector it returns.
Recurrence(step, init, back, s) ==
    RecurrenceLoop(step, init, back, s, RecurrenceEntry(s, <<>>)).res

InitialStates == {Leaf("zero"), Leaf("h0")}

RecIdle ==
    /\ seq = <<>>
    /\ initialState = NullVariable
    /\ goBackwards = FALSE

UnrIdle ==
    /\ x = <<>>
    /\ state = NullVariable
    /\ out = NullVariable
    /\ foldOut = NullVariable

BatchIdle ==
    /\ xBatch = <<>>
    /\ yBatch = <<>>
    /\ ndebug = FALSE
    /\ variant = "BinaryModel"
    /\ ncall = 0
    /\ oobRead = FALSE

MbIdle ==
    /\ inputs = <<>>
    /\ hasAxisOf = <<>>
    /\ numSeq = 0
    /\ i = 0

\* A model built from a callable alone: no parameter block, an empty shared_ptr.
NoModel == [fn |-> "", params |-> <<>>, children |-> <<>>, m_parameters |-> 0]

MdlIdle ==
    /\ fns = <<>>
    /\ model = NoModel
    /\ nullDeref = FALSE

S2sIdle ==
    /\ input = <<>>
    /\ label = <<>>
    /\ encoded = <<>>
    /\ losses = <<>>

NoEval == [repeats |-> 0, site |-> "none", dyn |-> <<>>, stat |-> <<>>]

DrvIdle ==
    /\ d_model_fn = NoModel
    /\ model_fn = NoModel
    /\ source = <<>>
    /\ minibatchData = <<>>
    /\ args = <<>>
    /\ repeats = 0
    /\ xxx = 0
    /\ stmt = 0
    /\ pvalue = <<>>
    /\ mbLoss = NullVariable
    /\ lastEval = NoEval
    /\ reported = <<>>

ExtIdle == MdlIdle /\ S2sIdle /\ DrvIdle

PbIdle ==
    /\ blocks = <<>>
    /\ supplied = <<>>
    /\ ret = [op |-> "none", kind |-> "none", block |-> 0, name |-> "", value |-> 0, msg |-> <<>>]
    /\ nextUid = 1

\* Recurrence(step, initialState, goBackwards) has been built and is about to
\* be called on seq.
RecInit ==
    /\ pc = "rec_entry"
    /\ calls = <<>>
    /\ err = ""
    /\ seq \in Seqs(Tokens, MaxLen)
    /\ initialState \in InitialStates
    /\ goBackwards \in BOOLEAN
    /\ res = <<>>
    /\ t = 0
    /\ UnrIdle /\ BatchIdle /\ MbIdle /\ PbIdle /\ ExtIdle

\* let len = seq.size(); vector<Variable> res(len);
RecurrenceCall ==
    /\ pc = "rec_entry"
    /\ res' = RecurrenceEntry(seq, calls).res
    /\ t' = 0
    /\ pc' = "rec_loop"
    /\ UNCHANGED <<calls, err, recVars, extVars, unrVars, batchVars, mbVars, pbVars>>

\* one iteration of for (t = 0; t < len; t++)
RecurrenceStep ==
    /\ pc = "rec_loop"
    /\ t < Len(seq)
    /\ LET st == RecurrenceBody("step", initialState, goBackwards, seq,
                                [res |-> res, calls |-> calls, t |-> t])
       IN  /\ res' = st.res
           /\ calls' = st.calls
           /\ t' = st.t
    /\ UNCHANGED <<pc, err, recVars, extVars, unrVars, batchVars, mbVars, pbVars>>

\* return res;
RecurrenceReturn ==
    /\ pc = "rec_loop"
    /\ ~(t < Len(seq))
    /\ pc' = "rec_done"
    /\ UNCHANGED <<calls, err, res, t, recVars, extVars, unrVars, batchVars, mbVars, pbVars>>

RecNext == RecurrenceCall \/ RecurrenceStep \/ RecurrenceReturn

SpecRecurrence == RecInit /\ [][RecNext]_vars

\* ---------------------------------------------------------------- C1, C2
\* C1: with goBackwards = false the call returns a vector of length N with
\* res[0] = step(initialState, seq[0]) and res[t] = step(res[t-1], seq[t]);
\* step has been invoked exactly N times, on seq[0], seq[1], ... in that order.
C1_ForwardRecurrence ==
    (pc = "rec_done" /\ ~goBackwards) =>
        /\ Len(res) = Len(seq)
        /\ \A k \in 0..(Len(seq) - 1) :
              At(res, k) = Apply2("step", IF k = 0 THEN initialState ELSE At(res, k - 1), At(seq, k))
        /\ Len(calls) = Len(seq)
        /\ \A k \in 0..(Len(seq) - 1) :
              At(calls, k) = Call2("step", IF k = 0 THEN initialState ELSE At(res, k - 1), At(seq, k))

C1_Witness ==
    pc = "rec_done" /\ ~goBackwards /\ Len(seq) = MaxLen /\ At(seq, 0) # At(seq, 1)

\* C2: with goBackwards = true the call returns a vector of length N with
\* res[N-1] = step(initialState, seq[N-1]) and res[i] = step(res[i+1], seq[i]);
\* the k-th invocation of step is the one for index N-1-k; and every iteration
\* writes one position that was still default-constructed, while the position
\* it reads as previous state has already been written.
C2_Final ==
    (pc = "rec_done" /\ goBackwards) =>
        LET n == Len(seq) IN
        /\ Len(res) = n
        /\ \A k \in 0..(n - 1) :
              At(res, k) = Apply2("step", IF k = n - 1 THEN initialState ELSE At(res, k + 1), At(seq, k))
        /\ Len(calls) = n
        /\ \A k \in 0..(n - 1) :
              At(calls, k) = Call2("step", IF k = 0 THEN initialState ELSE At(res, n - k), At(seq, n - 1 - k))

C2_Iteration ==
    (pc = "rec_loop" /\ goBackwards /\ t < Len(seq)) =>
        LET n == Len(seq) IN
        /\ At(res, n - 1 - t) = NullVariable
        /\ At(res', n - 1 - t) # NullVariable
        /\ \A k \in 0..(n - 1) : k # n - 1 - t => At(res', k) = At(res, k)
        /\ t > 0 => At(res, n - t) # NullVariable
        /\ t > 0 => At(calls', t).args[1] = At(res, n - t)

C2_BackwardRecurrence == []C2_Final /\ [][C2_Iteration]_vars

C2_Witness ==
    pc = "rec_done" /\ goBackwards /\ Len(seq) = MaxLen /\ At(seq, 0) # At(seq, MaxLen - 1)

\* ---------------------------------------------------------------- Index, Unrolled
\* Slice(x, axis = last, begin, end): the columns begin .. end-1 of x.
Slice(v, begin, end) == SubSeq(v, begin + 1, end)

\* Reshape(x, dims without the last axis) of a tensor whose last axis is 1.
DropLastAxis(v) == v[1]

\* Index(Variable x, size_t i): slice the last dimension at i, drop the axis.
Index(v, k) == DropLastAxis(Slice(v, k, k + 1))

\* auto zero = Constant({ hiddenDim }, 0.0f, device);
zero == Leaf("zero")

\* One iteration of the loop of the lambda CreateModelFunctionUnrolled returns.
UnrolledBodyStateNotThreaded(v, st) ==
    LET xt == Index(v, st.t)
        e == Apply1("embed", xt)
    IN  [state |-> Apply2("step", zero, e),
         calls |-> st.calls \o <<Call1("embed", xt), Call2("step", zero, e)>>,
         t |-> st.t + 1]

UnrolledBodyEmbedsFirstColumn(v, st) ==
    LET xt == Index(v, 0)
        e == Apply1("embed", xt)
    IN  [state |-> Apply2("step", st.state, e),
         calls |-> st.calls \o <<Call1("embed", xt), Call2("step", st.state, e)>>,
         t |-> st.t + 1]

UnrolledBody(v, st) ==
    LET xt == Index(v, st.t)
        e == Apply1("embed", xt)
    IN  [state |-> Apply2("step", st.state, e),
         calls |-> st.calls \o <<Call1("embed", xt), Call2("step", st.state, e)>>,
         t |-> st.t + 1]

\* ---------------------------------------------------------------- Sequence::Fold
\* The engine's PastValue over the sequence axis: the operand one step
\* earlier, and the default initial state (zero) at the first step.
PastValue(h, k) == IF k = 0 THEN zero ELSE At(h, k - 1)

\* The engine's Sequence::Last.
SequenceLast(h) == h[Len(h)]

\* Sequence::Recurrence(stepFunction)(x): rec = stepFunction(PastValue(dh), x)
\* with the placeholder dh replaced by rec itself, i.e. the sequence h with
\* h[k] = stepFunction(PastValue(h, k), x[k]).
RECURSIVE SequenceRecurrence(_, _)
SequenceRecurrence(stepFunction, xs) ==
    IF xs = <<>> THEN <<>>
    ELSE LET h == SequenceRecurrence(stepFunction, SubSeq(xs, 1, Len(xs) - 1))
             k == Len(xs) - 1
         IN  Append(h, Apply2(stepFunction, PastValue(h, k), At(xs, k)))

\* Sequence::Fold(stepFunction)(x) = Sequence::Last(recurrence(x)).
SequenceFold(stepFunction, xs) == SequenceLast(SequenceRecurrence(stepFunction, xs))

\* Batch::map(f, batch) / the unary Batch::Map: f applied to each item in order.
BatchMapUnary(f, batch) == [k \in 1..Len(batch) |-> Apply1(f, batch[k])]

\* ToVector(x): the slices Index(x, 0), ..., Index(x, len - 1).
ToVector(v) == [k \in 1..Len(v) |-> Index(v, k - 1)]

\* The model has been built and is about to be applied to x.
UnrInit ==
    /\ pc = "unr_entry"
    /\ calls = <<>>
    /\ err = ""
    /\ x \in Seqs(Tokens, MaxLen)
    /\ state = NullVariable
    /\ out = NullVariable
    /\ foldOut = NullVariable
    /\ res = <<>>
    /\ t = 0
    /\ RecIdle /\ BatchIdle /\ MbIdle /\ PbIdle /\ ExtIdle

\* let len = x.Shape().Dimensions().back(); Variable state = zero;
UnrolledCall ==
    /\ pc = "unr_entry"
    /\ state' = zero
    /\ t' = 0
    /\ pc' = "unr_loop"
    /\ UNCHANGED <<calls, err, res, x, out, foldOut, recVars, extVars, batchVars, mbVars, pbVars>>

\* one iteration of for (t = 0; t < len; t++)
UnrolledStep ==
    /\ pc = "unr_loop"
    /\ t < Len(x)
    /\ LET st == UnrolledBody(x, [state |-> state, calls |-> calls, t |-> t])
       IN  /\ state' = st.state
           /\ calls' = st.calls
           /\ t' = st.t
    /\ UNCHANGED <<pc, err, res, x, out, foldOut, recVars, extVars, batchVars, mbVars, pbVars>>

\* return linear(state);
UnrolledReturn ==
    /\ pc = "unr_loop"
    /\ ~(t < Len(x))
    /\ out' = Apply1("linear", state)
    /\ calls' = Append(calls, Call1("linear", state))
    /\ pc' = "unr_done"
    /\ UNCHANGED <<err, res, t, x, state, foldOut, recVars, extVars, batchVars, mbVars, pbVars>>

\* The static formulation's Sequence::Fold(step) evaluated on the embedded
\* input of the same minibatch item (a sequence has at least one step).
StaticFold ==
    /\ pc = "unr_done"
    /\ Len(x) > 0
    /\ foldOut = NullVariable
    /\ foldOut' = SequenceFold("step", BatchMapUnary("embed", ToVector(x)))
    /\ pc' = "fold_done"
    /\ UNCHANGED <<calls, err, res, t, x, state, out, recVars, extVars, batchVars, mbVars, pbVars>>

UnrNext == UnrolledCall \/ UnrolledStep \/ UnrolledReturn \/ StaticFold

SpecUnrolled == UnrInit /\ [][UnrNext]_vars

\* ---------------------------------------------------------------- C3, C10
\* C3: on a non-empty sequence, the state the unrolled loop ends with, and the
\* value Sequence::Fold returns, are the last element of what
\* Recurrence(step, zero) returns on the same (embedded) sequence.
C3_FoldIsLastOfRecurrence ==
    LET r == Recurrence("step", zero, FALSE, BatchMapUnary("embed", ToVector(x)))
    IN  /\ (pc \in {"unr_done", "fold_done"} /\ Len(x) > 0) =>
              /\ state = At(r, Len(x) - 1)
              /\ out = Apply1("linear", At(r, Len(x) - 1))
        /\ pc = "fold_done" => foldOut = At(r, Len(x) - 1)

C3_Witness ==
    pc = "fold_done" /\ Len(x) = MaxLen /\ At(x, 0) # At(x, 1)

\* The state the model must have after k steps: state_k = step(state_{k-1}, embed(x_{k-1})).
RECURSIVE C10_StateAfter(_)
C10_StateAfter(k) ==
    IF k = 0 THEN zero
    ELSE Apply2("step", C10_StateAfter(k - 1), Apply1("embed", x[k]))

\* C10: applied to an input of length N the model calls embed and step N
\* times each, alternately and in time order, call t being embed(x_t) followed
\* by step(state_{t-1}, embed(x_t)), then calls linear once on state_{N-1};
\* for N = 1 the result is linear(step(zero, embed(x0))).
C10_UnrolledCalls ==
    pc \in {"unr_done", "fold_done"} =>
        LET n == Len(x) IN
        /\ Len(calls) = 2 * n + 1
        /\ \A k \in 0..(n - 1) :
              /\ At(calls, 2 * k) = Call1("embed", x[k + 1])
              /\ At(calls, 2 * k + 1) = Call2("step", C10_StateAfter(k), Apply1("embed", x[k + 1]))
        /\ At(calls, 2 * n) = Call1("linear", C10_StateAfter(n))
        /\ out = Apply1("linear", C10_StateAfter(n))
        /\ Cardinality({k \in 1..Len(calls) : calls[k].fn = "embed"}) = n
        /\ Cardinality({k \in 1..Len(calls) : calls[k].fn = "step"}) = n
        /\ Cardinality({k \in 1..Len(calls) : calls[k].fn = "linear"}) = 1
        /\ n = 1 => out = Apply1("linear", Apply2("step", zero, Apply1("embed", x[1])))

C10_Witness ==
    pc = "unr_done" /\ Len(x) = MaxLen /\ At(x, 0) # At(x, 1)

\* ---------------------------------------------------------------- Batch::Map
\* The items of a batch: Variables for Map(BinaryModel), vectors of Variables
\* for Map(BinarySequenceModel).
ItemsOf(v) ==
    IF v = "BinaryModel" THEN {Leaf("a"), Leaf("b")}
    ELSE {<<Leaf("a")>>, <<Leaf("a"), Leaf("b")>>}

\* What a read past the end of a vector's storage yields when it does not fault.
Garbage == Leaf("garbage")

\* for (i = 0; i < xBatch.size(); i++) res.emplace_back(f(xBatch[i], yBatch[i]));
\* from index k on.  yBatch[k] with k >= yBatch.size() is undefined behaviour:
\* ub says whether the build faults there ("fault") or reads on ("read").
RECURSIVE BatchMapLoop(_, _, _, _, _, _)
BatchMapLoop(f, xB, yB, ub, k, st) ==
    IF ~(k < Len(xB)) THEN st
    ELSE IF k < Len(yB)
    THEN BatchMapLoop(f, xB, yB, ub, k + 1,
             [st EXCEPT !.res = Append(@, Apply2(f, At(xB, k), At(yB, k))),
                        !.calls = Append(@, Call2(f, At(xB, k), At(yB, k)))])
    ELSE IF ub = "fault"
    THEN [st EXCEPT !.kind = "fault", !.res = <<>>, !.oob = TRUE]
    ELSE BatchMapLoop(f, xB, yB, ub, k + 1,
             [st EXCEPT !.res = Append(@, Apply2(f, At(xB, k), Garbage)),
                        !.calls = Append(@, Call2(f, At(xB, k), Garbage)),
                        !.oob = TRUE])

BatchMapBinaryPairsWithFirst(f, xB, yB, nd, ub) ==
    IF ~nd /\ ~(Len(yB) = Len(xB))
    THEN [kind |-> "assert", res |-> <<>>, calls |-> <<>>, oob |-> FALSE]
    ELSE BatchMapLoop(f, xB, [k \in 1..Len(yB) |-> yB[1]], ub, 0,
                      [kind |-> "return", res |-> <<>>, calls |-> <<>>, oob |-> FALSE])

\* The lambda returned by Batch::Map(BinaryModel f) and by
\* Batch::Map(BinarySequenceModel f), called on (xBatch, yBatch).  With
\* assertions compiled in, assert(yBatch.size() == xBatch.size()) aborts the
\* process; with NDEBUG it is no code at all.
BatchMapBinary(f, xB, yB, nd, ub) ==
    IF ~nd /\ ~(Len(yB) = Len(xB))
    THEN [kind |-> "assert", res |-> <<>>, calls |-> <<>>, oob |-> FALSE]
    ELSE BatchMapLoop(f, xB, yB, ub, 0,
                      [kind |-> "return", res |-> <<>>, calls |-> <<>>, oob |-> FALSE])

\* A mapper Batch::Map(f) has been built; the build either keeps assertions
\* or defines NDEBUG.
BatchInit ==
    /\ pc = "map_ready"
    /\ calls = <<>>
    /\ err = ""
    /\ res = <<>>
    /\ t = 0
    /\ variant \in {"BinaryModel", "BinarySequenceModel"}
    /\ ndebug \in BOOLEAN
    /\ xBatch \in Seqs(ItemsOf(variant), MaxLen)
    /\ yBatch \in Seqs(ItemsOf(variant), MaxLen)
    /\ ncall = 0
    /\ oobRead = FALSE
    /\ RecIdle /\ UnrIdle /\ MbIdle /\ PbIdle /\ ExtIdle

\* One call mapper(xBatch, yBatch).
BatchMapCall ==
    /\ pc = "map_ready"
    /\ ncall < MaxCalls
    /\ \E ub \in {"fault", "read"} :
          LET o == BatchMapBinary("f", xBatch, yBatch, ndebug, ub)
          IN  /\ res' = o.res
              /\ calls' = calls \o o.calls
              /\ oobRead' = (oobRead \/ o.oob)
              /\ pc' = IF o.kind = "return" THEN "map_ready" ELSE "aborted"
              /\ err' = CASE o.kind = "assert" -> "Assertion failed: yBatch.size() == xBatch.size()"
                          [] o.kind = "fault" -> "segmentation fault"
                          [] OTHER -> ""
    /\ ncall' = ncall + 1
    /\ UNCHANGED <<t, xBatch, yBatch, ndebug, variant, recVars, extVars, unrVars, mbVars, pbVars>>

BatchNext == BatchMapCall

SpecBatch == BatchInit /\ [][BatchNext]_vars

\* ---------------------------------------------------------------- C7, C8
\* C7: called with batches of different lengths, the paired mappers fail
\* fatally before producing a result: no result vector is returned (so no
\* truncation to the shorter batch and no padding) and yBatch is never read
\* past its end.
C7_MismatchIsFatal ==
    (ncall > 0 /\ Len(xBatch) # Len(yBatch)) =>
        /\ pc = "aborted"
        /\ err # ""
        /\ res = <<>>
        /\ calls = <<>>
        /\ ~oobRead

\* C8: on batches of equal length n every call returns a list of length n
\* whose element i is f(A[i], B[i]); each call invokes f exactly n times, once
\* per index in index order, the second call as well as the first.
C8_PairwiseMap ==
    (ncall > 0 /\ Len(xBatch) = Len(yBatch)) =>
        LET n == Len(xBatch) IN
        /\ pc = "map_ready"
        /\ err = ""
        /\ Len(res) = n
        /\ \A k \in 0..(n - 1) : At(res, k) = Apply2("f", At(xBatch, k), At(yBatch, k))
        /\ Len(calls) = ncall * n
        /\ \A c \in 0..(ncall - 1) : \A k \in 0..(n - 1) :
              At(calls, c * n + k) = Call2("f", At(xBatch, k), At(yBatch, k))
        /\ ~oobRead

C8_Witness ==
    /\ ncall = 2
    /\ Len(xBatch) = MaxLen
    /\ Len(yBatch) = MaxLen
    /\ At(yBatch, 0) # At(yBatch, 1)
    /\ At(xBatch, 0) # At(yBatch, 0)
    /\ variant = "BinarySequenceModel"
    /\ ndebug

\* ---------------------------------------------------------------- FromCNTKMB
\* The NDArrayViews a stream's UnpackVariableValue yields, one per sequence.
Data == {Leaf("d")}

\* Index(NDArrayViewPtr data, size_t i): the slice i of the last dimension,
\* with that dimension dropped.
IndexView(data, k) == Apply2("Index", data, Leaf(k))

Constant(data) == Apply1("Constant", data)

\* The body of for (i = 0; i < numArgs; i++) for stream k: st holds the
\* locals res and numSeq.
FromCNTKMBStream(ins, axes, k, st) ==
    LET sequences == At(ins, k)
        n == IF st.numSeq = 0 THEN Len(sequences) ELSE st.numSeq
    IN  IF st.numSeq # 0 /\ st.numSeq # Len(sequences)
        THEN [ok |-> FALSE, numSeq |-> st.numSeq, res |-> st.res]
        ELSE [ok |-> TRUE,
              numSeq |-> n,
              res |-> [st.res EXCEPT ![k + 1] =
                          [s \in 1..n |->
                              Constant(IF ~At(axes, k) THEN IndexView(sequences[s], "0")
                                       ELSE sequences[s])]]]

\* FromCNTKMB is about to be called on numArgs >= 1 streams; every stream
\* without a sequence axis holds sequences of one sample, as the assert on
\* line 320 requires of the reader's data.
MbInit ==
    /\ pc = "mb_entry"
    /\ calls = <<>>
    /\ err = ""
    /\ res = <<>>
    /\ t = 0
    /\ \E n \in 1..MaxStreams :
          /\ inputs \in [1..n -> Seqs(Data, MaxSeqs)]
          /\ hasAxisOf \in [1..n -> BOOLEAN]
    /\ numSeq = 0
    /\ i = 0
    /\ RecIdle /\ UnrIdle /\ BatchIdle /\ PbIdle /\ ExtIdle

\* let numArgs = inputs.size(); vector<vector<Variable>> res(numArgs); size_t numSeq = 0;
FromCNTKMBCall ==
    /\ pc = "mb_entry"
    /\ res' = [k \in 1..Len(inputs) |-> <<>>]
    /\ numSeq' = 0
    /\ i' = 0
    /\ pc' = "mb_loop"
    /\ UNCHANGED <<calls, err, t, inputs, hasAxisOf, recVars, extVars, unrVars, batchVars, pbVars>>

\* one iteration of for (i = 0; i < numArgs; i++)
FromCNTKMBStep ==
    /\ pc = "mb_loop"
    /\ i < Len(inputs)
    /\ LET st == FromCNTKMBStream(inputs, hasAxisOf, i, [res |-> res, numSeq |-> numSeq])
       IN  IF st.ok
           THEN /\ res' = st.res
                /\ numSeq' = st.numSeq
                /\ i' = i + 1
                /\ UNCHANGED <<pc, err>>
           ELSE /\ err' = "inconsistent MB size"
                /\ pc' = "mb_failed"
                /\ UNCHANGED <<res, numSeq, i>>
    /\ UNCHANGED <<calls, t, inputs, hasAxisOf, recVars, extVars, unrVars, batchVars, pbVars>>

\* return res;
FromCNTKMBReturn ==
    /\ pc = "mb_loop"
    /\ ~(i < Len(inputs))
    /\ pc' = "mb_done"
    /\ UNCHANGED <<calls, err, res, t, mbVars, recVars, extVars, unrVars, batchVars, pbVars>>

MbNext == FromCNTKMBCall \/ FromCNTKMBStep \/ FromCNTKMBReturn

SpecMB == MbInit /\ [][MbNext]_vars

\* ---------------------------------------------------------------- C9
C9_CountsAgree == \A k \in 1..Len(inputs) : Len(inputs[k]) = Len(inputs[1])

\* C9: a call on streams whose sequence counts are not all equal ends in the
\* "inconsistent MB size" error, whatever the counts and their order; a call
\* that returns gives every stream a result list of one common length.
C9_InconsistentCountsFail ==
    /\ (pc \in {"mb_done", "mb_failed"} /\ ~C9_CountsAgree) =>
          (pc = "mb_failed" /\ err = "inconsistent MB size")
    /\ pc = "mb_done" =>
          \A k \in 1..Len(res) : Len(res[k]) = Len(inputs[1]) /\ Len(res[k]) = Len(res[1])

\* ---------------------------------------------------------------- ParameterBlock
\* A Parameter is a name and the identity of the tensor object behind it.
Names == {"", "W", "b"}
LookupNames == Names \cup {"R"}
ChildNames == {"step"}
NestedNames == ChildNames \cup {"", "embed"}

\* What Parameter() and map<wstring, Parameter>::operator[] would make up.
DefaultParameter == [name |-> "", uid |-> 0]

\* map::insert(make_pair(key, value)): no effect when the key is present.
MapInsert(m, key, value) ==
    IF key \in DOMAIN m THEN m ELSE [k \in DOMAIN m \cup {key} |-> IF k = key THEN value ELSE m[k]]

EmptyMap == [k \in {} |-> DefaultParameter]

\* The constructor's loop over parameters from position k on; m is
\* m_parameters so far.  LogicError throws, which abandons the object.
RECURSIVE PBConstructLoop(_, _, _)
PBConstructLoop(parameters, k, m) ==
    IF k > Len(parameters) THEN [ok |-> TRUE, m_parameters |-> m, msg |-> ""]
    ELSE IF parameters[k].name = ""
    THEN [ok |-> FALSE, m_parameters |-> m, msg |-> "parameters must be named"]
    ELSE PBConstructLoop(parameters, k + 1, MapInsert(m, parameters[k].name, parameters[k]))

ParameterBlockChecksFirstOnly(parameters, parentParameters) ==
    IF parameters # <<>> /\ parameters[1].name = ""
    THEN [ok |-> FALSE, block |-> [m_parameters |-> EmptyMap, m_parentParameters |-> parentParameters],
          msg |-> "parameters must be named"]
    ELSE [ok |-> TRUE,
          block |-> [m_parameters |-> [n \in {parameters[k].name : k \in 1..Len(parameters)} |->
                                          parameters[CHOOSE k \in 1..Len(parameters) :
                                              /\ parameters[k].name = n
                                              /\ \A j \in 1..(k - 1) : parameters[j].name # n]],
                     m_parentParameters |-> parentParameters],
          msg |-> ""]

\* ParameterBlock::ParameterBlock(parameters, parentParameters)
ParameterBlock(parameters, parentParameters) ==
    LET r == PBConstructLoop(parameters, 1, EmptyMap)
    IN  [ok |-> r.ok,
         block |-> [m_parameters |-> r.m_parameters, m_parentParameters |-> parentParameters],
         msg |-> r.msg]

NoRet == [op |-> "none", kind |-> "none", block |-> 0, name |-> "", value |-> 0, msg |-> <<>>]

PBLookupDefaultInserted(blk, name) ==
    IF name \in DOMAIN blk.m_parameters
    THEN [kind |-> "parameter", value |-> blk.m_parameters[name], msg |-> <<>>, block |-> blk]
    ELSE [kind |-> "parameter", value |-> DefaultParameter, msg |-> <<>>,
          block |-> [blk EXCEPT !.m_parameters = MapInsert(@, name, DefaultParameter)]]

\* ParameterBlock::operator[](name): find, LogicError when absent.
PBLookup(blk, name) ==
    IF name \notin DOMAIN blk.m_parameters
    THEN [kind |-> "error", value |-> 0, msg |-> <<"no such parameter", name>>, block |-> blk]
    ELSE [kind |-> "parameter", value |-> blk.m_parameters[name], msg |-> <<>>, block |-> blk]

\* ParameterBlock::Nested(name): find, LogicError when absent; the result is
\* the block the stored shared_ptr points to.
PBNested(blk, name) ==
    IF name \notin DOMAIN blk.m_parentParameters
    THEN [kind |-> "error", value |-> 0, msg |-> <<"no such captured model", name>>, block |-> blk]
    ELSE [kind |-> "block", value |-> blk.m_parentParameters[name], msg |-> <<>>, block |-> blk]

PbInit ==
    /\ pc = "pb_ready"
    /\ calls = <<>>
    /\ err = ""
    /\ res = <<>>
    /\ t = 0
    /\ blocks = <<>>
    /\ supplied = <<>>
    /\ ret = NoRet
    /\ nextUid = 1
    /\ RecIdle /\ UnrIdle /\ BatchIdle /\ MbIdle /\ ExtIdle

\* make_shared<ParameterBlock>(parameters, nested) on freshly created, named
\* or unnamed Parameters and on shared pointers to blocks built before.
Construct ==
    /\ pc = "pb_ready"
    /\ Len(blocks) < MaxBlocks
    /\ \E names \in Seqs(Names, MaxParams) :
       \E keys \in SUBSET ChildNames :
       \E parentParameters \in [keys -> 1..Len(blocks)] :
          LET parameters == [k \in 1..Len(names) |-> [name |-> names[k], uid |-> nextUid + k - 1]]
              r == ParameterBlock(parameters, parentParameters)
          IN  /\ nextUid' = nextUid + Len(names)
              /\ IF r.ok
                 THEN /\ blocks' = Append(blocks, r.block)
                      /\ supplied' = Append(supplied, [parameters |-> parameters,
                                                       parentParameters |-> parentParameters])
                      /\ ret' = [NoRet EXCEPT !.op = "construct", !.kind = "block",
                                              !.block = Len(blocks) + 1,
                                              !.value = parameters]
                      /\ UNCHANGED <<pc, err>>
                 ELSE /\ ret' = [NoRet EXCEPT !.op = "construct", !.kind = "error",
                                              !.value = parameters, !.msg = <<r.msg>>]
                      /\ err' = r.msg
                      /\ pc' = "pb_failed"
                      /\ UNCHANGED <<blocks, supplied>>
    /\ UNCHANGED <<calls, res, t, recVars, extVars, unrVars, batchVars, mbVars>>

\* block[name]
Lookup ==
    /\ pc = "pb_ready"
    /\ \E b \in 1..Len(blocks) : \E name \in LookupNames :
          LET r == PBLookup(blocks[b], name)
          IN  /\ blocks' = [blocks EXCEPT ![b] = r.block]
              /\ ret' = [op |-> "lookup", kind |-> r.kind, block |-> b, name |-> name,
                         value |-> r.value, msg |-> r.msg]
              /\ pc' = IF r.kind = "error" THEN "pb_failed" ELSE "pb_ready"
              /\ err' = IF r.kind = "error" THEN r.msg[1] ELSE err
    /\ UNCHANGED <<calls, res, t, supplied, nextUid, recVars, extVars, unrVars, batchVars, mbVars>>

\* block.Nested(name)
Nested ==
    /\ pc = "pb_ready"
    /\ \E b \in 1..Len(blocks) : \E name \in NestedNames :
          LET r == PBNested(blocks[b], name)
          IN  /\ blocks' = [blocks EXCEPT ![b] = r.block]
              /\ ret' = [op |-> "nested", kind |-> r.kind, block |-> b, name |-> name,
                         value |-> r.value, msg |-> r.msg]
              /\ pc' = IF r.kind = "error" THEN "pb_failed" ELSE "pb_ready"
              /\ err' = IF r.kind = "error" THEN r.msg[1] ELSE err
    /\ UNCHANGED <<calls, res, t, supplied, nextUid, recVars, extVars, unrVars, batchVars, mbVars>>

PbNext == Construct \/ Lookup \/ Nested

SpecParams == PbInit /\ [][PbNext]_vars

\* ---------------------------------------------------------------- C4, C5, C6
C4_SuppliedNames(b) == {supplied[b].parameters[k].name : k \in 1..Len(supplied[b].parameters)}

C4_SuppliedParameters(b) == {supplied[b].parameters[k] : k \in 1..Len(supplied[b].parameters)}

\* C4: lookup(name) returns a stored Parameter of that name exactly when one
\* was supplied at construction and otherwise fails with "no such parameter"
\* naming it; nested(name) returns the stored child exactly when that key was
\* supplied and otherwise fails with a not-found error naming it; no lookup
\* returns a default-constructed value, and the maps of every block hold
\* exactly the supplied keys after any number of lookups.
C4_LookupFindsOrFails ==
    /\ ret.op = "lookup" =>
          /\ ret.kind = "parameter" <=> ret.name \in C4_SuppliedNames(ret.block)
          /\ ret.kind = "parameter" =>
                /\ ret.value \in C4_SuppliedParameters(ret.block)
                /\ ret.value.name = ret.name
                /\ ret.value # DefaultParameter
          /\ ret.kind # "parameter" =>
                /\ ret.kind = "error"
                /\ ret.msg = <<"no such parameter", ret.name>>
                /\ pc = "pb_failed"
    /\ ret.op = "nested" =>
          /\ ret.kind = "block" <=> ret.name \in DOMAIN supplied[ret.block].parentParameters
          /\ ret.kind = "block" => ret.value = supplied[ret.block].parentParameters[ret.name]
          /\ ret.kind # "block" =>
                /\ ret.kind = "error"
                /\ ret.msg[2] = ret.name
                /\ pc = "pb_failed"
    /\ \A b \in 1..Len(blocks) :
          /\ DOMAIN blocks[b].m_parameters = C4_SuppliedNames(b)
          /\ blocks[b].m_parentParameters = supplied[b].parentParameters

C4_Witness ==
    /\ ret.op = "lookup"
    /\ ret.kind = "error"
    /\ ret.name = ""
    /\ Len(blocks) = 2
    /\ DOMAIN blocks[ret.block].m_parameters = {"W", "b"}
    /\ DOMAIN blocks[2].m_parentParameters = {"step"}

\* C5: a constructor call fails with "parameters must be named" exactly when
\* its parameter list holds a parameter with an empty name, at any position;
\* a failed call leaves no block behind.
C5_UnnamedParameterFails ==
    /\ ret.op = "construct" =>
          /\ ret.kind = "error" <=> \E k \in 1..Len(ret.value) : ret.value[k].name = ""
          /\ ret.kind = "error" => (err = "parameters must be named" /\ pc = "pb_failed")
    /\ \A b \in 1..Len(blocks) : "" \notin C4_SuppliedNames(b)

C5_Witness ==
    /\ ret.op = "construct"
    /\ ret.kind = "error"
    /\ Len(ret.value) = MaxParams
    /\ ret.value[1].name # ""
    /\ ret.value[MaxParams].name = ""
    /\ Len(blocks) = 1

\* C6: a constructor call on a list in which two parameters share a name
\* fails, so in every block built each supplied parameter is the one stored
\* under its name.
C6_DuplicateNameFails ==
    \A b \in 1..Len(blocks) :
        /\ \A j, k \in 1..Len(supplied[b].parameters) :
              j # k => supplied[b].parameters[j].name # supplied[b].parameters[k].name
        /\ \A p \in C4_SuppliedParameters(b) : blocks[b].m_parameters[p.name] = p

\* ---------------------------------------------------------------- ModelT, layers
\* A ModelT is its callable (named fn; params are the Parameters and children
\* the models its closure captured) and m_parameters, a shared_ptr to a
\* ParameterBlock: the index of the block in blocks, 0 when empty.  A
\* construction context c is the heap of blocks and the next Parameter identity.
NewParameter(name, uid) == [name |-> name, uid |-> uid]

\* ModelT(const Base& f): m_parameters stays empty.
ModelT1(c, fn, params, children) ==
    [ok |-> TRUE, heap |-> c.heap, uid |-> c.uid,
     model |-> [fn |-> fn, params |-> params, children |-> children, m_parameters |-> 0]]

\* ModelT(parameters, nested, f): m_parameters = make_shared<ParameterBlock>(parameters, nested).
ModelT3(c, parameters, nested, fn, params, children) ==
    LET r == ParameterBlock(parameters, nested)
    IN  IF r.ok
        THEN [ok |-> TRUE, heap |-> Append(c.heap, r.block), uid |-> c.uid,
              model |-> [fn |-> fn, params |-> params, children |-> children,
                         m_parameters |-> Len(c.heap) + 1]]
        ELSE [ok |-> FALSE, heap |-> c.heap, uid |-> c.uid, model |-> NoModel]

\* ModelT(parameters, f): no nested blocks.
ModelT2(c, parameters, fn, params, children) ==
    ModelT3(c, parameters, <<>>, fn, params, children)

\* Embedding(embeddingDim, device): one Parameter E.
Embedding(c) ==
    LET E == NewParameter("E", c.uid)
    IN  ModelT2([c EXCEPT !.uid = @ + 1], <<E>>, "embed", <<E>>, <<>>)

\* RNNStep(outputDim, device): Parameters W, R, b.
RNNStep(c) ==
    LET W == NewParameter("W", c.uid)
        R == NewParameter("R", c.uid + 1)
        b == NewParameter("b", c.uid + 2)
    IN  ModelT2([c EXCEPT !.uid = @ + 3], <<W, R, b>>, "step", <<W, R, b>>, <<>>)

\* Linear(outputDim, device): Parameters W, b.
Linear(c) ==
    LET W == NewParameter("W", c.uid)
        b == NewParameter("b", c.uid + 1)
    IN  ModelT2([c EXCEPT !.uid = @ + 2], <<W, b>>, "linear", <<W, b>>, <<>>)

\* Sequence::Recurrence(stepFunction): a model made from the lambda alone.
SequenceRecurrenceModel(c, stepFunction) ==
    ModelT1(c, "recurrence", <<>>, <<stepFunction>>)

\* Sequence::Fold(stepFunction): captured["step"] = stepFunction.GetParameterBlock().
FoldModel(c, stepFunction) ==
    LET captured == [n \in {"step"} |-> stepFunction.m_parameters]
        recurrence == SequenceRecurrenceModel(c, stepFunction).model
    IN  ModelT3(c, <<>>, captured, "fold", <<>>, <<recurrence>>)

\* std::to_wstring(i)
Digit(d) ==
    CASE d = 0 -> "0" [] d = 1 -> "1" [] d = 2 -> "2" [] d = 3 -> "3" [] d = 4 -> "4"
      [] d = 5 -> "5" [] d = 6 -> "6" [] d = 7 -> "7" [] d = 8 -> "8" [] d = 9 -> "9"

RECURSIVE ToWString(_)
ToWString(n) == IF n < 10 THEN Digit(n) ELSE ToWString(n \div 10) \o Digit(n % 10)

\* The loop of Sequential from index k on: captured[name] = fns[k].GetParameterBlock(),
\* where operator[] of the map inserts or overwrites.
RECURSIVE SequentialCapture(_, _, _)
SequentialCapture(fs, k, captured) ==
    IF ~(k < Len(fs)) THEN captured
    ELSE LET name == "[" \o ToWString(k) \o "]"
         IN  SequentialCapture(fs, k + 1,
                 [n \in DOMAIN captured \cup {name} |->
                     IF n = name THEN At(fs, k).m_parameters ELSE captured[n]])

SequentialKeysFromOne(c, fs) ==
    ModelT3(c, <<>>,
            [n \in {"[" \o ToWString(k) \o "]" : k \in 1..Len(fs)} |->
                fs[CHOOSE k \in 1..Len(fs) : n = "[" \o ToWString(k) \o "]"].m_parameters],
            "sequential", <<>>, fs)

\* Sequential(fns)
Sequential(c, fs) ==
    ModelT3(c, <<>>, SequentialCapture(fs, 0, <<>>), "sequential", <<>>, fs)

\* The lambda of Sequential from child k on: arg = f(arg) for each f in fns.
RECURSIVE SequentialLoop(_, _, _)
SequentialLoopLastFirst(fs, k, st) ==
    IF k > Len(fs) THEN st
    ELSE LET f == fs[Len(fs) + 1 - k]
         IN  SequentialLoop(fs, k + 1,
                 [arg |-> Apply1(f.fn, st.arg), calls |-> Append(st.calls, Call1(f.fn, st.arg))])

SequentialLoop(fs, k, st) ==
    IF k > Len(fs) THEN st
    ELSE SequentialLoop(fs, k + 1,
             [arg |-> Apply1(fs[k].fn, st.arg),
              calls |-> Append(st.calls, Call1(fs[k].fn, st.arg))])

\* The model Sequential returns, called on v: auto arg = Combine({ x }); ...; return arg.
SequentialApply(fs, v) ==
    SequentialLoop(fs, 1, [arg |-> Apply1("Combine", v), calls |-> <<>>])

\* CreateModelFunction: Sequential({ Embedding, Sequence::Fold(RNNStep), Linear }).
CreateModelFunctionLayers(c) ==
    LET e == Embedding(c)
        st == RNNStep(e)
        f == FoldModel(st, st.model)
        l == Linear(f)
    IN  [heap |-> l.heap, uid |-> l.uid, fns |-> <<e.model, f.model, l.model>>, step |-> st.model]

CreateModelFunction(c) ==
    LET ls == CreateModelFunctionLayers(c) IN Sequential(ls, ls.fns)

\* block.Nested(path[1]).Nested(path[2])...[name], from the block at pointer b;
\* "null" when the walk meets an empty shared_ptr.
RECURSIVE ResolvePath(_, _, _, _)
ResolvePath(heap, b, path, name) ==
    IF b = 0 THEN [kind |-> "null", value |-> 0, msg |-> <<>>]
    ELSE IF path = <<>> THEN [kind |-> PBLookup(heap[b], name).kind,
                              value |-> PBLookup(heap[b], name).value,
                              msg |-> PBLookup(heap[b], name).msg]
    ELSE LET r == PBNested(heap[b], Head(path))
         IN  IF r.kind = "error" THEN [kind |-> "error", value |-> 0, msg |-> r.msg]
             ELSE ResolvePath(heap, r.value, Tail(path), name)

\* The unary models Sequential is given here: the three layers of
\* CreateModelFunction and Sequence::Recurrence(step), which has no block.
Pool ==
    LET ls == CreateModelFunctionLayers([heap |-> <<>>, uid |-> 1])
    IN  [heap |-> ls.heap, uid |-> ls.uid,
         models |-> {ls.fns[1], ls.fns[2], ls.fns[3], SequenceRecurrenceModel(ls, ls.step).model},
         layers |-> ls.fns]

MdlInit ==
    /\ pc = "mdl_ready"
    /\ calls = <<>>
    /\ err = ""
    /\ res = <<>>
    /\ t = 0
    /\ blocks = Pool.heap
    /\ supplied = <<>>
    /\ ret = NoRet
    /\ nextUid = Pool.uid
    /\ fns \in Seqs(Pool.models, MaxLen)
    /\ model = NoModel
    /\ nullDeref = FALSE
    /\ RecIdle /\ UnrIdle /\ BatchIdle /\ MbIdle /\ S2sIdle /\ DrvIdle

\* model = Sequential(fns)
SequentialCall ==
    /\ pc = "mdl_ready"
    /\ LET r == Sequential([heap |-> blocks, uid |-> nextUid], fns)
       IN  /\ blocks' = r.heap
           /\ nextUid' = r.uid
           /\ model' = r.model
    /\ pc' = "mdl_built"
    /\ UNCHANGED <<calls, err, res, t, supplied, ret, fns, nullDeref,
                   recVars, unrVars, batchVars, mbVars, s2sVars, drvVars>>

\* model(x)
ModelCall ==
    /\ pc = "mdl_built"
    /\ out = NullVariable
    /\ \E v \in Tokens :
          LET r == SequentialApply(model.children, v)
          IN  /\ out' = r.arg
              /\ calls' = calls \o r.calls
    /\ UNCHANGED <<pc, err, res, t, x, state, foldOut, pbVars, mdlVars,
                   recVars, batchVars, mbVars, s2sVars, drvVars>>

\* Dereferencing an empty shared_ptr is undefined: the call may fault or go
\* on with a reference to no block.
NullDereference ==
    /\ nullDeref' = TRUE
    /\ pc' \in {"mdl_fault", "mdl_undefined"}
    /\ UNCHANGED <<err, ret, blocks>>

\* What Nested or operator[] of the block at pointer b leaves behind; r is
\* the result of PBNested or PBLookup and op names the operation.
BlockResult(op, b, name, r) ==
    /\ blocks' = [blocks EXCEPT ![b] = r.block]
    /\ IF r.kind = "error"
       THEN /\ ret' = [op |-> op, kind |-> "error", block |-> b, name |-> name,
                       value |-> 0, msg |-> r.msg]
            /\ err' = r.msg[1]
            /\ pc' = "mdl_failed"
            /\ UNCHANGED nullDeref
       ELSE IF r.kind = "block" /\ r.value = 0
       THEN /\ nullDeref' = TRUE
            /\ pc' \in {"mdl_fault", "mdl_undefined"}
            /\ UNCHANGED <<err, ret>>
       ELSE /\ ret' = [op |-> op, kind |-> r.kind, block |-> b, name |-> name,
                       value |-> r.value, msg |-> r.msg]
            /\ UNCHANGED <<pc, err, nullDeref>>

\* ModelT::Nested(name) on the composite or on one of the models it was given:
\* m_parameters->Nested(name).
ModelNested ==
    /\ pc = "mdl_built"
    /\ \E m \in {model} \cup {fns[k] : k \in 1..Len(fns)} : \E name \in {"[0]", "[1]", "[3]", "step"} :
          IF m.m_parameters = 0
          THEN NullDereference
          ELSE BlockResult("nested", m.m_parameters, name, PBNested(blocks[m.m_parameters], name))
    /\ UNCHANGED <<calls, res, t, supplied, nextUid, fns, model, recVars, unrVars, batchVars, mbVars, s2sVars, drvVars>>

\* ParameterBlock::Nested(name) on the block the last Nested returned.
BlockNested ==
    /\ pc = "mdl_built"
    /\ ret.kind = "block"
    /\ \E name \in {"step", "embed"} :
          BlockResult("nested", ret.value, name, PBNested(blocks[ret.value], name))
    /\ UNCHANGED <<calls, res, t, supplied, nextUid, fns, model, recVars, unrVars, batchVars, mbVars, s2sVars, drvVars>>

\* ParameterBlock::operator[](name) on the block the last Nested returned.
BlockLookup ==
    /\ pc = "mdl_built"
    /\ ret.kind = "block"
    /\ \E name \in {"E", "W", "R", "b", ""} :
          BlockResult("lookup", ret.value, name, PBLookup(blocks[ret.value], name))
    /\ UNCHANGED <<calls, res, t, supplied, nextUid, fns, model, recVars, unrVars, batchVars, mbVars, s2sVars, drvVars>>

MdlNext == SequentialCall \/ ModelCall \/ ModelNested \/ BlockNested \/ BlockLookup

SpecModels == MdlInit /\ [][MdlNext]_vars

\* ---------------------------------------------------------------- C11
C11_Keys == <<"[0]", "[1]", "[2]", "[3]", "[4]", "[5]">>

C11_At(path, name) == ResolvePath(blocks, model.m_parameters, path, name)

\* C11: the model Sequential returns applies models[0], ..., models[n-1] in
\* that order; its block has no own parameters and exactly the nested keys
\* "[0]" .. "[n-1]", key "[i]" holding the very pointer models[i] holds (no
\* block is copied: the heap grows by the composite's block alone); and for
\* the three layers of CreateModelFunction the paths [0]/E, [1]/step/W,
\* [1]/step/R, [1]/step/b, [2]/W, [2]/b resolve to the Parameters the
\* embedding, the RNN step and the linear layer captured.
C11_SequentialBlock ==
    model.fn = "sequential" =>
        LET n == Len(fns)
            b == model.m_parameters
        IN  /\ b = Len(Pool.heap) + 1
            /\ Len(blocks) = Len(Pool.heap) + 1
            /\ \A j \in 1..Len(Pool.heap) : blocks[j] = Pool.heap[j]
            /\ DOMAIN blocks[b].m_parameters = {}
            /\ DOMAIN blocks[b].m_parentParameters = {C11_Keys[k] : k \in 1..n}
            /\ \A k \in 1..n : blocks[b].m_parentParameters[C11_Keys[k]] = fns[k].m_parameters
            /\ out # NullVariable =>
                  /\ Len(calls) = n
                  /\ \A k \in 1..n : calls[k].fn = fns[k].fn
                  /\ n > 0 => \E v \in Tokens : calls[1].args[1] = Apply1("Combine", v)
                  /\ \A k \in 1..(n - 1) : calls[k + 1].args[1] = Apply1(fns[k].fn, calls[k].args[1])
                  /\ n > 0 => out = Apply1(fns[n].fn, calls[n].args[1])
                  /\ n = 0 => \E v \in Tokens : out = Apply1("Combine", v)
            /\ fns = Pool.layers =>
                  LET stp == fns[2].children[1].children[1]
                  IN  /\ C11_At(<<"[0]">>, "E").value = fns[1].params[1]
                      /\ C11_At(<<"[1]", "step">>, "W").value = stp.params[1]
                      /\ C11_At(<<"[1]", "step">>, "R").value = stp.params[2]
                      /\ C11_At(<<"[1]", "step">>, "b").value = stp.params[3]
                      /\ C11_At(<<"[2]">>, "W").value = fns[3].params[1]
                      /\ C11_At(<<"[2]">>, "b").value = fns[3].params[2]
                      /\ stp.fn = "step" /\ fns[1].fn = "embed" /\ fns[3].fn = "linear"

C11_Witness ==
    /\ pc = "mdl_built"
    /\ fns = Pool.layers
    /\ out # NullVariable
    /\ ret.op = "lookup"
    /\ ret.kind = "parameter"
    /\ ret.name = "R"

\* ---------------------------------------------------------------- C16
\* C16: on every model, also one built from a callable alone and a composite
\* whose child had no block, nested(name) and lookup(name) at any depth
\* return an existing block or Parameter or fail with a not-found error; no
\* empty shared_ptr<ParameterBlock> is ever dereferenced.
C16_NoNullDereference ==
    /\ ~nullDeref
    /\ pc \notin {"mdl_fault", "mdl_undefined"}
    /\ ret.op \in {"nested", "lookup"} =>
          \/ ret.kind = "block" /\ ret.value \in 1..Len(blocks)
          \/ ret.kind = "parameter"
          \/ ret.kind = "error" /\ pc = "mdl_failed"

\* ---------------------------------------------------------------- CreateModelFunctionS2SAtt
\* let bos = Constant({ numOutputClasses }, 0.0f, device);
bos == Leaf("bos")

\* The lambda decode(encoded, recurrenceState, prevWord), with the sub-model
\* calls it makes.
Decode(enc, recurrenceState, prevWord) ==
    LET attentionAugmentedState == Apply2("attentionModel", enc, recurrenceState)
        prevWordEmbedded == Apply1("outEmbed", prevWord)
        input1 == Apply2("Splice", prevWordEmbedded, attentionAugmentedState)
        inp == Apply1("Reshape", input1)
    IN  [state |-> Apply2("fwdDec", recurrenceState, inp),
         calls |-> <<Call2("attentionModel", enc, recurrenceState),
                     Call1("outEmbed", prevWord),
                     Call2("fwdDec", recurrenceState, inp)>>]

\* Minus(ReduceLogSum(z, Axis::AllStaticAxes()), Times(label[t], z, 0))
Loss(lab, z) == Apply2("Minus", Apply1("ReduceLogSum", z), Apply2("Times", lab, z))

\* One iteration of the decoder loop; st holds state, losses, t and the log.
S2SBodyFeedsBackOutput(enc, lab, st) ==
    LET prevOut == IF st.t = 0 THEN bos ELSE Apply1("outProj", st.state)
        d == Decode(enc, st.state, prevOut)
        z == Apply1("outProj", d.state)
    IN  [state |-> d.state,
         losses |-> [st.losses EXCEPT ![st.t + 1] = Loss(At(lab, st.t), z)],
         calls |-> st.calls \o d.calls \o <<Call1("outProj", d.state)>>,
         t |-> st.t + 1]

S2SBody(enc, lab, st) ==
    LET prevOut == IF st.t = 0 THEN bos ELSE At(lab, st.t - 1)
        d == Decode(enc, st.state, prevOut)
        z == Apply1("outProj", d.state)
    IN  [state |-> d.state,
         losses |-> [st.losses EXCEPT ![st.t + 1] = Loss(At(lab, st.t), z)],
         calls |-> st.calls \o d.calls \o <<Call1("outProj", d.state)>>,
         t |-> st.t + 1]

\* The model has been built and is about to be called on (input, label).
S2sInit ==
    /\ pc = "s2s_entry"
    /\ calls = <<>>
    /\ err = ""
    /\ res = <<>>
    /\ t = 0
    /\ input \in Seqs({Leaf("a"), Leaf("b")}, MaxLen)
    /\ label \in Seqs(Tokens, MaxLen)
    /\ encoded = <<>>
    /\ losses = <<>>
    /\ RecIdle /\ UnrIdle /\ BatchIdle /\ MbIdle /\ PbIdle /\ MdlIdle /\ DrvIdle

\* let seq = embed(input); let encoded = encoder(seq); let outLen = label.size();
\* auto losses = vector<Variable>(outLen); Variable state = zero;
S2SCall ==
    /\ pc = "s2s_entry"
    /\ encoded' = Recurrence("fwdEnc", zero, FALSE, BatchMapUnary("embed", input))
    /\ losses' = [k \in 1..Len(label) |-> NullVariable]
    /\ state' = zero
    /\ t' = 0
    /\ pc' = "s2s_loop"
    /\ UNCHANGED <<calls, err, res, x, out, foldOut, input, label,
                   recVars, batchVars, mbVars, pbVars, mdlVars, drvVars>>

\* one iteration of for (t = 0; t < outLen; t++)
S2SStep ==
    /\ pc = "s2s_loop"
    /\ t < Len(label)
    /\ LET st == S2SBody(encoded, label,
                         [state |-> state, losses |-> losses, calls |-> calls, t |-> t])
       IN  /\ state' = st.state
           /\ losses' = st.losses
           /\ calls' = st.calls
           /\ t' = st.t
    /\ UNCHANGED <<pc, err, res, x, out, foldOut, input, label, encoded,
                   recVars, batchVars, mbVars, pbVars, mdlVars, drvVars>>

\* return losses;
S2SReturn ==
    /\ pc = "s2s_loop"
    /\ ~(t < Len(label))
    /\ pc' = "s2s_done"
    /\ UNCHANGED <<calls, err, res, t, unrVars, s2sVars,
                   recVars, batchVars, mbVars, pbVars, mdlVars, drvVars>>

S2sNext == S2SCall \/ S2SStep \/ S2SReturn

SpecS2S == S2sInit /\ [][S2sNext]_vars

\* ---------------------------------------------------------------- C14
\* The token fed at step k, the state entering it and the state leaving it,
\* as the claim states them.
C14_Prev(k) == IF k = 0 THEN bos ELSE label[k]

RECURSIVE C14_State(_)
C14_State(k) ==
    IF k = 0 THEN zero
    ELSE Apply2("fwdDec", C14_State(k - 1),
                Apply1("Reshape",
                    Apply2("Splice", Apply1("outEmbed", C14_Prev(k - 1)),
                           Apply2("attentionModel", encoded, C14_State(k - 1)))))

\* C14: for a label sequence of length L the decoder runs L steps in order
\* and returns L losses; step 0 is fed the bos placeholder and the zero state,
\* step t > 0 the true label[t-1] and the state step t-1 produced; the loss at
\* position t is computed against label[t].
C14_TeacherForcing ==
    pc = "s2s_done" =>
        LET L == Len(label) IN
        /\ Len(losses) = L
        /\ Len(calls) = 4 * L
        /\ \A k \in 0..(L - 1) :
              /\ At(calls, 4 * k) = Call2("attentionModel", encoded, C14_State(k))
              /\ At(calls, 4 * k + 1) = Call1("outEmbed", C14_Prev(k))
              /\ At(calls, 4 * k + 2).fn = "fwdDec"
              /\ At(calls, 4 * k + 2).args[1] = C14_State(k)
              /\ At(calls, 4 * k + 3) = Call1("outProj", C14_State(k + 1))
              /\ At(losses, k) = Loss(label[k + 1], Apply1("outProj", C14_State(k + 1)))
        /\ state = C14_State(L)

C14_Witness ==
    pc = "s2s_done" /\ Len(label) = MaxLen /\ label[1] # label[2] /\ Len(input) > 1

\* ---------------------------------------------------------------- TrainSequenceClassifier
MaxMB == 2          \* most minibatches the reader delivers in one run
MaxMBSeqs == 1      \* most sequences a stream of one of them unpacks to

TimedLoops == 5     \* for (xxx = 0; xxx < 5; xxx++)
EvalsPerLoop == 10  \* d_criterion_fn calls in the body of the timed loop
UntimedTrains == 1  \* TrainMinibatch before the scope timer
TimedTrains == 10   \* TrainMinibatch calls under the scope timer

\* CreateModelFunctionUnrolled: embed, step, linear and the model that
\* captures their blocks under "embed", "step", "linear".
CreateModelFunctionUnrolled(c) ==
    LET e == Embedding(c)
        st == RNNStep(e)
        l == Linear(st)
        captured == [n \in {"embed", "step", "linear"} |->
                        CASE n = "embed" -> e.model.m_parameters
                          [] n = "step" -> st.model.m_parameters
                          [] n = "linear" -> l.model.m_parameters]
    IN  ModelT3(l, <<>>, captured, "unrolled", <<>>, <<e.model, st.model, l.model>>)

\* AttentionModel: three Parameters (Wenc, Wdec, v) held by the lambda, in no block.
AttentionModel(c) == [heap |-> c.heap, uid |-> c.uid + 3]

\* CreateModelFunctionS2SAtt: the layers it builds (embed, fwdEnc, bwdEnc,
\* outEmbed, fwdDec, attentionModel, outProj); the result is a plain lambda.
CreateModelFunctionS2SAtt(c) ==
    LET embed == Embedding(c)
        fwdEnc == RNNStep(embed)
        bwdEnc == RNNStep(fwdEnc)
        outEmbed == Embedding(bwdEnc)
        fwdDec == RNNStep(outEmbed)
        attentionModel == AttentionModel(fwdDec)
        outProj == Linear(attentionModel)
    IN  [heap |-> outProj.heap, uid |-> outProj.uid]

\* The Parameters a model's function uses: its own and its children's, in order.
RECURSIVE ModelParameters(_)
RECURSIVE ChildrenParameters(_, _)
ModelParameters(m) == m.params \o ChildrenParameters(m.children, 1)

ChildrenParameters(cs, k) ==
    IF k > Len(cs) THEN <<>>
    ELSE ModelParameters(cs[k]) \o ChildrenParameters(cs, k + 1)

\* The value each Parameter is created with: b is Parameter({ outputDim },
\* 0.0f, device), every other one is drawn by GlorotUniformInitializer().
InitialValues(heap, n) ==
    [u \in 1..n |->
        IF \E b \in 1..Len(heap) :
              /\ "b" \in DOMAIN heap[b].m_parameters
              /\ heap[b].m_parameters["b"].uid = u
        THEN Leaf("0.0f")
        ELSE <<"GlorotUniform", u>>]

\* The values of a list of Parameters.
ValuesOf(pv, ps) == [k \in 1..Len(ps) |-> pv[ps[k].uid]]

\* The minibatches a reader can deliver: per stream the sequences it unpacks to.
Minibatches == Seqs(Data, MaxMBSeqs) \X Seqs(Data, MaxMBSeqs)

\* FromCNTKMB(inputs, variables, device), from stream k on.
RECURSIVE FromCNTKMBLoop(_, _, _, _)
FromCNTKMBLoop(ins, axes, k, st) ==
    IF ~(k < Len(ins)) THEN [ok |-> TRUE, res |-> st.res]
    ELSE LET n == FromCNTKMBStream(ins, axes, k, st)
         IN  IF ~n.ok THEN [ok |-> FALSE, res |-> <<>>]
             ELSE FromCNTKMBLoop(ins, axes, k + 1, [res |-> n.res, numSeq |-> n.numSeq])

FromCNTKMB(ins, axes) ==
    FromCNTKMBLoop(ins, axes, 0, [res |-> [k \in 1..Len(ins) |-> <<>>], numSeq |-> 0])

\* The function CreateCriterionFunctionUnrolled returns, called on
\* (features, labels): Batch::Map(criterion), Splice, ReduceSum.
DCriterion(features, labels, nd, ub) ==
    LET o == BatchMapBinary("criterion", features, labels, nd, ub)
    IN  [kind |-> o.kind,
         value |-> Apply1("ReduceSum", Apply1("Splice", o.res))]

\* The six statements to.Value()->CopyFrom(*from.Value()).
CopyLines ==
    <<[to |-> [path |-> <<"embed">>, name |-> "E"], from |-> [path |-> <<"[0]">>, name |-> "E"]],
      [to |-> [path |-> <<"step">>, name |-> "W"], from |-> [path |-> <<"[1]", "step">>, name |-> "W"]],
      [to |-> [path |-> <<"step">>, name |-> "R"], from |-> [path |-> <<"[1]", "step">>, name |-> "R"]],
      [to |-> [path |-> <<"step">>, name |-> "b"], from |-> [path |-> <<"[1]", "step">>, name |-> "b"]],
      [to |-> [path |-> <<"linear">>, name |-> "W"], from |-> [path |-> <<"[2]">>, name |-> "W"]],
      [to |-> [path |-> <<"linear">>, name |-> "b"], from |-> [path |-> <<"[2]">>, name |-> "b"]]>>

\* The copy statements from number k on; a lookup that fails throws and
\* leaves the later statements unexecuted.
RECURSIVE CopyLoop(_, _, _, _, _, _)
CopyLoop(lines, heap, dm, sm, k, pv) ==
    IF k > Len(lines) THEN [kind |-> "done", pvalue |-> pv, msg |-> <<>>]
    ELSE LET to == ResolvePath(heap, dm.m_parameters, lines[k].to.path, lines[k].to.name)
             from == ResolvePath(heap, sm.m_parameters, lines[k].from.path, lines[k].from.name)
         IN  IF to.kind # "parameter" THEN [kind |-> to.kind, pvalue |-> pv, msg |-> to.msg]
             ELSE IF from.kind # "parameter" THEN [kind |-> from.kind, pvalue |-> pv, msg |-> from.msg]
             ELSE CopyLoop(lines, heap, dm, sm, k + 1,
                           [pv EXCEPT ![to.value.uid] = pv[from.value.uid]])

CrossCopySkipsLinearBias(heap, dm, sm, pv) ==
    CopyLoop(SubSeq(CopyLines, 1, Len(CopyLines) - 1), heap, dm, sm, 1, pv)

CrossCopy(heap, dm, sm, pv) == CopyLoop(CopyLines, heap, dm, sm, 1, pv)

\* trainer->TrainMinibatch(...): the learner updates the Parameters it was
\* given, FunctionPtr(loss)->Parameters(), from the minibatch.
TrainMinibatchUpdatesAll(pv, learned, mb) ==
    [u \in DOMAIN pv |-> <<"sgd", pv[u], mb>>]

TrainMinibatch(pv, learned, mb) ==
    [u \in DOMAIN pv |->
        IF \E k \in 1..Len(learned) : learned[k].uid = u
        THEN <<"sgd", pv[u], mb>>
        ELSE pv[u]]

\* What the driver never touches.
drvFrame == <<calls, res, t, xBatch, yBatch, variant, ncall, oobRead, supplied, ret,
              recVars, unrVars, mbVars, mdlVars, s2sVars>>

\* main is about to run; the reader holds the minibatches of one sweep and
\* the build either keeps assertions or defines NDEBUG.
DrvInit ==
    /\ pc = "main_entry"
    /\ calls = <<>>
    /\ err = ""
    /\ res = <<>>
    /\ t = 0
    /\ xBatch = <<>>
    /\ yBatch = <<>>
    /\ ndebug \in BOOLEAN
    /\ variant = "BinaryModel"
    /\ ncall = 0
    /\ oobRead = FALSE
    /\ d_model_fn = NoModel
    /\ model_fn = NoModel
    /\ source \in Seqs(Minibatches, MaxMB)
    /\ minibatchData = <<>>
    /\ args = <<>>
    /\ repeats = 0
    /\ xxx = 0
    /\ stmt = 0
    /\ pvalue = <<>>
    /\ mbLoss = NullVariable
    /\ lastEval = NoEval
    /\ reported = <<>>
    /\ RecIdle /\ UnrIdle /\ MbIdle /\ PbIdle /\ MdlIdle /\ S2sIdle

\* An exception leaves the driver: the stack unwinds to the handler in main.
Raise(msg) ==
    /\ err' = msg
    /\ pc' = "main_catch"

\* main calls TrainSequenceClassifier, which builds the dynamic model, the
\* sequence-to-sequence model and the static model, the reader, learner and trainer.
DrvSetup ==
    /\ pc = "main_entry"
    /\ \E engineFails \in BOOLEAN :
          IF engineFails
          THEN /\ Raise("engine error")
               /\ UNCHANGED <<blocks, nextUid, d_model_fn, model_fn, pvalue>>
          ELSE LET d == CreateModelFunctionUnrolled([heap |-> <<>>, uid |-> 1])
                   s2s == CreateModelFunctionS2SAtt(d)
                   m == CreateModelFunction(s2s)
               IN  /\ blocks' = m.heap
                   /\ nextUid' = m.uid
                   /\ d_model_fn' = d.model
                   /\ model_fn' = m.model
                   /\ pvalue' = InitialValues(m.heap, m.uid - 1)
                   /\ pc' = "drv_fetch"
                   /\ UNCHANGED err
    /\ UNCHANGED <<ndebug, source, minibatchData, args, repeats, xxx, stmt, mbLoss,
                   lastEval, reported, drvFrame>>

\* minibatchSource->GetNextMinibatch(...); if (minibatchData.empty()) break;
\* after the loop the driver returns and main falls off its end.
DrvGetNextMinibatch ==
    /\ pc = "drv_fetch"
    /\ \E engineFails \in BOOLEAN :
          IF engineFails
          THEN /\ Raise("engine error")
               /\ UNCHANGED <<source, minibatchData>>
          ELSE IF source = <<>>
          THEN /\ pc' = "main_return"
               /\ UNCHANGED <<err, source, minibatchData>>
          ELSE /\ minibatchData' = Head(source)
               /\ source' = Tail(source)
               /\ pc' = "drv_adapt"
               /\ UNCHANGED err
    /\ UNCHANGED <<ndebug, blocks, nextUid, d_model_fn, model_fn, args, repeats, xxx,
                   stmt, pvalue, mbLoss, lastEval, reported, drvFrame>>

\* args = FromCNTKMB({ features data, labels data }, { features variable with
\* a sequence axis, labels variable with the batch axis only }, device); the
\* loop filling vargs follows and has no effect on what is used later.
DrvFromCNTKMB ==
    /\ pc = "drv_adapt"
    /\ \E engineFails \in BOOLEAN :
          LET r == FromCNTKMB(minibatchData, <<TRUE, FALSE>>)
          IN  IF engineFails
              THEN Raise("engine error") /\ UNCHANGED args
              ELSE IF ~r.ok
              THEN Raise("inconsistent MB size") /\ UNCHANGED args
              ELSE /\ args' = r.res
                   /\ pc' = "drv_warmup"
                   /\ UNCHANGED err
    /\ UNCHANGED <<ndebug, blocks, nextUid, d_model_fn, model_fn, source, minibatchData,
                   repeats, xxx, stmt, pvalue, mbLoss, lastEval, reported, drvFrame>>

\* One call mbLoss = d_criterion_fn(args[0], args[1]): what it does in a
\* build whose out-of-range read behaves as ub and with the engine failing or not.
EvalOutcome(ub, engineFails) ==
    LET o == DCriterion(At(args, 0), At(args, 1), ndebug, ub)
    IN  [kind |-> IF o.kind # "return" THEN o.kind
                  ELSE IF engineFails THEN "engine" ELSE "ok",
         value |-> o.value]

\* The call does not return: a failed assert or a fault ends the process on
\* the spot, an engine error is thrown.
EvalFails(o) ==
    /\ o.kind # "ok"
    /\ pc' = IF o.kind = "engine" THEN "main_catch" ELSE "aborted"
    /\ err' = CASE o.kind = "assert" -> "Assertion failed: yBatch.size() == xBatch.size()"
                [] o.kind = "fault" -> "segmentation fault"
                [] OTHER -> "engine error"
    /\ UNCHANGED <<mbLoss, lastEval>>

\* The call returns; lastEval notes the values it read.
EvalReturns(o, site) ==
    /\ o.kind = "ok"
    /\ mbLoss' = o.value
    /\ lastEval' = [repeats |-> repeats, site |-> site,
                    dyn |-> ValuesOf(pvalue, ModelParameters(d_model_fn)),
                    stat |-> ValuesOf(pvalue, ModelParameters(model_fn))]
    /\ UNCHANGED err

\* mbLoss = d_criterion_fn(args[0], args[1]); mbLoss.Value()->AsScalar<float>();
DrvWarmup ==
    /\ pc = "drv_warmup"
    /\ \E ub \in {"fault", "read"}, engineFails \in BOOLEAN :
          LET o == EvalOutcome(ub, engineFails)
          IN  \/ EvalFails(o)
              \/ /\ EvalReturns(o, "warmup")
                 /\ pc' = IF repeats > 0 THEN "drv_copy" ELSE "drv_train"
    /\ UNCHANGED <<ndebug, blocks, nextUid, d_model_fn, model_fn, source, minibatchData,
                   args, repeats, xxx, stmt, pvalue, reported, drvFrame>>

\* if (repeats > 0) { six CopyFrom statements }
DrvCopy ==
    /\ pc = "drv_copy"
    /\ \E engineFails \in BOOLEAN :
          LET r == CrossCopy(blocks, d_model_fn, model_fn, pvalue)
          IN  IF engineFails
              THEN Raise("engine error") /\ UNCHANGED <<pvalue, xxx>>
              ELSE /\ pvalue' = r.pvalue
                   /\ CASE r.kind = "done" ->
                             pc' = "drv_timed" /\ xxx' = 0 /\ UNCHANGED err
                        [] r.kind = "error" ->
                             Raise(r.msg[1]) /\ UNCHANGED xxx
                        [] OTHER ->
                             pc' = "aborted" /\ err' = "null dereference" /\ UNCHANGED xxx
    /\ UNCHANGED <<ndebug, blocks, nextUid, d_model_fn, model_fn, source, minibatchData,
                   args, repeats, stmt, mbLoss, lastEval, reported, drvFrame>>

\* One of the ten statements mbLoss = d_criterion_fn(args[0], args[1]) of the
\* timed loop's body; after the tenth the loss is printed and xxx++.
DrvTimedEval ==
    /\ pc = "drv_timed"
    /\ xxx < TimedLoops
    /\ \E ub \in {"fault", "read"}, engineFails \in BOOLEAN :
          LET o == EvalOutcome(ub, engineFails)
          IN  \/ EvalFails(o) /\ UNCHANGED <<xxx, stmt>>
              \/ /\ EvalReturns(o, "timed")
                 /\ IF stmt + 1 = EvalsPerLoop
                    THEN stmt' = 0 /\ xxx' = xxx + 1
                    ELSE stmt' = stmt + 1 /\ UNCHANGED xxx
                 /\ UNCHANGED pc
    /\ UNCHANGED <<ndebug, blocks, nextUid, d_model_fn, model_fn, source, minibatchData,
                   args, repeats, pvalue, reported, drvFrame>>

\* xxx < 5 fails: on to the static training.
DrvTimedDone ==
    /\ pc = "drv_timed"
    /\ ~(xxx < TimedLoops)
    /\ pc' = "drv_train"
    /\ UNCHANGED <<err, ndebug, blocks, nextUid, drvVars, drvFrame>>

\* One of the eleven statements trainer->TrainMinibatch(...).
DrvTrainMinibatch ==
    /\ pc = "drv_train"
    /\ stmt < UntimedTrains + TimedTrains
    /\ \E engineFails \in BOOLEAN :
          IF engineFails
          THEN Raise("engine error") /\ UNCHANGED <<pvalue, stmt>>
          ELSE /\ pvalue' = TrainMinibatch(pvalue, ModelParameters(model_fn), minibatchData)
               /\ stmt' = stmt + 1
               /\ UNCHANGED <<pc, err>>
    /\ UNCHANGED <<ndebug, blocks, nextUid, d_model_fn, model_fn, source, minibatchData,
                   args, repeats, xxx, mbLoss, lastEval, reported, drvFrame>>

\* PrintTrainingProgress(...); then repeats++ and the next iteration.
DrvPrintTrainingProgress ==
    /\ pc = "drv_train"
    /\ ~(stmt < UntimedTrains + TimedTrains)
    /\ repeats' = repeats + 1
    /\ stmt' = 0
    /\ pc' = "drv_fetch"
    /\ UNCHANGED <<err, ndebug, blocks, nextUid, d_model_fn, model_fn, source,
                   minibatchData, args, xxx, pvalue, mbLoss, lastEval, reported, drvFrame>>

\* catch (exception& e) { fprintf(stderr, "EXCEPTION caught: %s\n", e.what()); }
MainCatch ==
    /\ pc = "main_catch"
    /\ reported' = Append(reported, <<"EXCEPTION caught", err>>)
    /\ pc' = "main_return"
    /\ UNCHANGED <<err, ndebug, blocks, nextUid, d_model_fn, model_fn, source,
                   minibatchData, args, repeats, xxx, stmt, pvalue, mbLoss, lastEval,
                   drvFrame>>

DrvNext ==
    \/ DrvSetup
    \/ DrvGetNextMinibatch
    \/ DrvFromCNTKMB
    \/ DrvWarmup
    \/ DrvCopy
    \/ DrvTimedEval
    \/ DrvTimedDone
    \/ DrvTrainMinibatch
    \/ DrvPrintTrainingProgress
    \/ MainCatch

SpecTrain == DrvInit /\ [][DrvNext]_vars

\* ---------------------------------------------------------------- C12
\* The values now held by the dynamic model's and by the static model's Parameters.
DynamicValues == ValuesOf(pvalue, ModelParameters(d_model_fn))
StaticValues == ValuesOf(pvalue, ModelParameters(model_fn))

\* C12 as stated: once the models are built a Parameter's value changes only
\* in a TrainMinibatch step (so never in model or criterion invocation,
\* minibatch adaptation or the cross-check), and no step changes a
\* ParameterBlock.
C12_OnlyLearnerWrites ==
    [][pc # "main_entry" =>
          /\ (pvalue' # pvalue => pc = "drv_train")
          /\ blocks' = blocks]_vars

\* C12, amended: once the models are built, the static model's Parameters
\* change only in a TrainMinibatch step and the dynamic model's only in the
\* copy step of an iteration with repeats > 0, which gives each the current
\* value of its static counterpart; no other Parameter changes, and no step
\* changes a ParameterBlock or the block a model holds.
C12_LearnerAndCopyWrite ==
    [][pc # "main_entry" =>
          /\ blocks' = blocks
          /\ d_model_fn' = d_model_fn
          /\ model_fn' = model_fn
          /\ DOMAIN pvalue' = DOMAIN pvalue
          /\ \A u \in DOMAIN pvalue :
                pvalue'[u] # pvalue[u] =>
                   \E k \in 1..Len(ModelParameters(model_fn)) :
                      \/ /\ ModelParameters(model_fn)[k].uid = u
                         /\ pc = "drv_train"
                      \/ /\ ModelParameters(d_model_fn)[k].uid = u
                         /\ pc = "drv_copy"
                         /\ repeats > 0
                         /\ pvalue'[u] = StaticValues[k]]_vars

\* The copy of the second iteration has run: the dynamic Parameters hold the
\* trained values of the static ones.
C12_Witness ==
    /\ pc = "drv_timed"
    /\ repeats > 0
    /\ DynamicValues = StaticValues
    /\ \A k \in 1..Len(StaticValues) : StaticValues[k][1] = "sgd"

\* ---------------------------------------------------------------- C13
\* C13: once a fatal error is raised the driver takes no further step; the
\* error reaches main's handler, which reports it once to stderr, and the
\* process ends by main returning.
C13_ErrorReachesMain ==
    err # "" =>
        /\ pc \in {"main_catch", "main_return"}
        /\ pc = "main_catch" => reported = <<>>
        /\ pc = "main_return" => reported = <<<<"EXCEPTION caught", err>>>>

RECURSIVE C15_Before(_, _)
C15_Before(v, n) == IF n = 0 THEN v ELSE C15_Before(v[2], n - 1)

====
